---- MODULE Spec2Model ----
(***************************************************************************)
(* Model of paul_python/capstone.py: a linear script that locates one      *)
(* audio file, loads it with librosa at 41000 Hz, prints and plots the     *)
(* waveform, plots the window y[0:200000], pitch-shifts the waveform by 4  *)
(* semitones and loads the file a second time with pydub.                  *)
(*                                                                         *)
(* Sample arrays are modelled in whole blocks of BlockSize samples: one    *)
(* element of a modelled sequence stands for one block.  Index constants   *)
(* of the script (200000, 15) are converted to blocks with Blocks.         *)
(*                                                                         *)
(* Two specifications:                                                     *)
(*   Spec     the run of the script, statement by statement;               *)
(*   OpsSpec  one application of load / slice / pitch_shift to inputs      *)
(*            drawn from bounded sets (the operations as pure functions).  *)
(***************************************************************************)
EXTENDS Integers, Sequences, FiniteSets, TLC

\* ---------------------------------------------------------------- bounds
MaxLen == 3
BlockSize == 100000

\* ------------------------------------------------------ program constants
TargetRate == 41000
ZoomStop == 200000
HeadStop == 15
NSteps == 4

Path == "/Users/paulgarces/Desktop/theysayitswonderful.mp3"

\* ----------------------------------------------------------- value domains
Samples == {0, 1}
NativeRates == {32000, 41000, 44100}
TargetRates == {22050, 41000, 44100}
StepValues == {-12, -4, 0, 4, 12}
Indices == (0 - (MaxLen + 1)) .. (MaxLen + 1)

SeqsOfLen(n) == [1..n -> Samples]
Arrays == UNION {SeqsOfLen(n) : n \in 0..MaxLen}

\* A file on disk: absent, present but not audio, or audio with its native
\* rate and decoded samples.
Files ==
    {[kind |-> "missing", rate |-> 0, pcm |-> <<>>],
     [kind |-> "garbage", rate |-> 0, pcm |-> <<>>]}
    \cup [kind : {"audio"}, rate : NativeRates, pcm : Arrays]

\* The outcome of a call: a returned array with the rate bound beside it, or
\* the exception it raised.
Ok(s, r) == [ok |-> TRUE, error |-> "none", samples |-> s, rate |-> r]
Err(e) == [ok |-> FALSE, error |-> e, samples |-> <<>>, rate |-> 0]

\* -------------------------------------------------------------- helpers
CeilDiv(a, b) == (a + b - 1) \div b
RoundDiv(a, b) == (2 * a + b) \div (2 * b)
Blocks(n) == CeilDiv(n, BlockSize)

\* Mutant of Glob: the pattern is returned whether or not the file exists.
GlobUnchecked(f) == <<Path>>

\* glob(pattern) with a pattern holding no wildcard: the path if it exists.
Glob(f) == IF f.kind = "missing" THEN <<>> ELSE <<Path>>

\* Mutant of SliceIndex: a negative index is clamped to 0 instead of counting
\* from the end.
SliceIndexNoWrap(k, n) ==
    IF k < 0 THEN 0 ELSE (IF k > n THEN n ELSE k)

\* Python's slice.indices for step 1: a negative index counts from the end,
\* and every index is clamped into 0..n.
SliceIndex(k, n) ==
    IF k < 0
    THEN (IF k + n < 0 THEN 0 ELSE k + n)
    ELSE (IF k > n THEN n ELSE k)

\* Mutant of NumpySlice: the window starts one element late.
NumpySliceLate(s, i, j) ==
    SubSeq(s, SliceIndex(i, Len(s)) + 2, SliceIndex(j, Len(s)))

\* y[i:j] on a one-dimensional array.
NumpySlice(s, i, j) ==
    SubSeq(s, SliceIndex(i, Len(s)) + 1, SliceIndex(j, Len(s)))

\* resample: the number of output samples, ceil(n * target / orig).
ResampleLen(n, orig, target) == CeilDiv(n * target, orig)

\* Mutant of LoadRate: the native rate is returned, as with sr=None.
LoadRateNative(f, target) == f.rate

\* librosa.load(path, sr=target): the rate it returns beside the array.
LoadRate(f, target) == target

\* librosa.load(path, sr=target): the arrays it can return for an audio
\* file.  Equal rates skip the resampling; otherwise the resampled values
\* are interpolated, modelled as any samples of the resampled length.
LoadArrays(f, target) ==
    IF f.rate = target
    THEN {f.pcm}
    ELSE SeqsOfLen(ResampleLen(Len(f.pcm), f.rate, target))

\* librosa.load as a whole.
LibrosaLoad(f, target) ==
    CASE f.kind = "missing" -> {Err("FileNotFoundError")}
      [] f.kind = "garbage" -> {Err("NoBackendError")}
      [] OTHER -> {Ok(s, LoadRate(f, target)) : s \in LoadArrays(f, target)}

\* pitch_shift: rate = 2 ** (-n_steps / 12), in thousandths.
RateMilli(steps) ==
    CASE steps = -12 -> 2000
      [] steps = -4 -> 1260
      [] steps = 0 -> 1000
      [] steps = 4 -> 794
      [] steps = 12 -> 500

\* time_stretch(y, rate): istft(..., length=round(len(y) / rate)).
StretchLen(n, steps) == RoundDiv(n * 1000, RateMilli(steps))

\* resample(stretched, orig_sr=sr / rate, target_sr=sr).
ShiftedLen(n, steps) == CeilDiv(StretchLen(n, steps) * RateMilli(steps), 1000)

\* Mutant of FixLength: the length is left as the resampling gave it.
FixLengthNone(s, size) == s

\* util.fix_length(data, size): truncate, or pad with zeros at the end.
FixLength(s, size) ==
    [k \in 1..size |-> IF k <= Len(s) THEN s[k] ELSE 0]

\* Mutant of PitchShift: an empty signal is transformed like any other.
PitchShiftUnchecked(s, rate, steps) ==
    {Ok(FixLength(raw, Len(s)), rate) :
        raw \in SeqsOfLen(ShiftedLen(Len(s), steps))}

\* librosa.effects.pitch_shift(y, sr=rate, n_steps=steps): the stft of an
\* empty signal cannot be padded and raises; otherwise the stretched and
\* resampled signal is fixed to the length of the input.
PitchShift(s, rate, steps) ==
    IF Len(s) = 0
    THEN {Err("ParameterError")}
    ELSE {Ok(FixLength(raw, Len(s)), rate) :
            raw \in SeqsOfLen(ShiftedLen(Len(s), steps))}

\* ------------------------------------------------------------------ state
VARIABLES
    pc,             \* the statement the script executes next
    file,           \* the file at Path
    bound,          \* the names the script has bound so far
    audio_files,    \* line 19
    y,              \* line 28
    sr,             \* line 28
    printed,        \* lines 29-31
    zoomed,         \* line 42
    changing_pitch, \* line 48
    shiftRate,      \* the sr argument of line 48
    playRate,       \* the rate argument of line 49
    song,           \* line 54
    error,          \* the uncaught exception, "none" while running
    failedAt,       \* the statement that raised it
    call,           \* OpsSpec: the operation applied and its arguments
    ret             \* OpsSpec: its outcome

scriptVars == <<pc, file, bound, audio_files, y, sr, printed, zoomed,
                changing_pitch, shiftRate, playRate, song, error, failedAt>>
opsVars == <<call, ret>>
vars == <<scriptVars, opsVars>>

NoCall == [op |-> "none", file |-> [kind |-> "missing", rate |-> 0, pcm |-> <<>>],
           samples |-> <<>>, rate |-> 0, i |-> 0, j |-> 0, steps |-> 0]
NoRet == Err("pending")

NoSong == [samples |-> <<>>, rate |-> 0]

\* The order of the statements.
Steps == <<"glob", "audio", "load", "print", "plot", "zoom", "shift", "play",
           "from_mp3", "done">>
StepNo(p) == CHOOSE k \in 1..Len(Steps) : Steps[k] = p
NextStep(p) == Steps[StepNo(p) + 1]

\* Mutant of Raise: the exception is swallowed and the script goes on.
RaiseContinue(step, e) ==
    /\ pc' = NextStep(step)
    /\ error' = e
    /\ failedAt' = step

\* An exception no statement catches ends the script where it was raised.
Raise(step, e) ==
    /\ pc' = "failed"
    /\ error' = e
    /\ failedAt' = step

Advance(step) ==
    /\ pc' = NextStep(step)
    /\ UNCHANGED <<error, failedAt>>

InitScript ==
    /\ pc = "glob"
    /\ file \in Files
    /\ bound = {}
    /\ audio_files = <<>>
    /\ y = <<>>
    /\ sr = 0
    /\ printed = <<>>
    /\ zoomed = <<>>
    /\ changing_pitch = <<>>
    /\ shiftRate = 0
    /\ playRate = 0
    /\ song = NoSong
    /\ error = "none"
    /\ failedAt = "none"

Init ==
    /\ InitScript
    /\ call = NoCall
    /\ ret = NoRet

\* ------------------------------------------------------ the script's run

\* line 19: audio_files = glob(Path)
GlobFiles ==
    /\ pc = "glob"
    /\ audio_files' = Glob(file)
    /\ bound' = bound \cup {"audio_files"}
    /\ Advance("glob")
    /\ UNCHANGED <<file, y, sr, printed, zoomed, changing_pitch, shiftRate,
                   playRate, song, call, ret>>

\* line 20: ipd.Audio(audio_files[0]); indexing an empty list raises.
AudioWidget ==
    /\ pc = "audio"
    /\ IF Len(audio_files) = 0
       THEN Raise("audio", "IndexError")
       ELSE Advance("audio")
    /\ UNCHANGED <<file, bound, audio_files, y, sr, printed, zoomed,
                   changing_pitch, shiftRate, playRate, song, call, ret>>

\* line 28: y, sr = librosa.load(audio_files[0], sr = 41000)
Load ==
    /\ pc = "load"
    /\ \E r \in LibrosaLoad(file, TargetRate) :
         IF r.ok
         THEN /\ y' = r.samples
              /\ sr' = r.rate
              /\ bound' = bound \cup {"y", "sr"}
              /\ Advance("load")
         ELSE /\ Raise("load", r.error)
              /\ UNCHANGED <<y, sr, bound>>
    /\ UNCHANGED <<file, audio_files, printed, zoomed, changing_pitch,
                   shiftRate, playRate, song, call, ret>>

\* lines 29-31: print y[:15], y.shape and sr
PrintInfo ==
    /\ pc = "print"
    /\ printed' = <<NumpySlice(y, 0, Blocks(HeadStop)), Len(y), sr>>
    /\ Advance("print")
    /\ UNCHANGED <<file, bound, audio_files, y, sr, zoomed, changing_pitch,
                   shiftRate, playRate, song, call, ret>>

\* lines 33-37: pd.Series(y).plot(...); plt.show().  Plotting an empty
\* series raises TypeError ("no numeric data to plot") in some pandas
\* releases and draws an empty plot in others.
PlotRaw ==
    /\ pc = "plot"
    /\ \E raises \in (IF Len(y) = 0 THEN BOOLEAN ELSE {FALSE}) :
         IF raises THEN Raise("plot", "TypeError") ELSE Advance("plot")
    /\ UNCHANGED <<file, bound, audio_files, y, sr, printed, zoomed,
                   changing_pitch, shiftRate, playRate, song, call, ret>>

\* lines 42-46: pd.Series(y[0:200000]).plot(...); plt.show().  The series
\* is empty only when y is, and then line 33 has already plotted one.
PlotZoom ==
    /\ pc = "zoom"
    /\ zoomed' = NumpySlice(y, 0, Blocks(ZoomStop))
    /\ Advance("zoom")
    /\ UNCHANGED <<file, bound, audio_files, y, sr, printed, changing_pitch,
                   shiftRate, playRate, song, call, ret>>

\* Mutant of ShiftRateArg: the file's native rate is passed.
ShiftRateNative == file.rate

\* line 48: the sr argument of pitch_shift.
ShiftRateArg == sr

\* Mutant of BindShift: the result also replaces y.
BindShiftInPlace(r) ==
    /\ changing_pitch' = r.samples
    /\ y' = r.samples
    /\ bound' = bound \cup {"changing_pitch"}
    /\ UNCHANGED sr

\* line 48: changing_pitch = <the returned array>
BindShift(r) ==
    /\ changing_pitch' = r.samples
    /\ bound' = bound \cup {"changing_pitch"}
    /\ UNCHANGED <<y, sr>>

\* line 48: changing_pitch = librosa.effects.pitch_shift(y, sr=sr, n_steps = 4)
Shift ==
    /\ pc = "shift"
    /\ shiftRate' = ShiftRateArg
    /\ \E r \in PitchShift(y, ShiftRateArg, NSteps) :
         IF r.ok
         THEN /\ BindShift(r)
              /\ Advance("shift")
         ELSE /\ Raise("shift", r.error)
              /\ UNCHANGED <<y, sr, changing_pitch, bound>>
    /\ UNCHANGED <<file, audio_files, printed, zoomed, playRate, song,
                   call, ret>>

\* line 49: the rate argument of ipd.Audio.
PlayRateArg == sr

\* line 49: ipd.Audio(changing_pitch, rate = sr)
Play ==
    /\ pc = "play"
    /\ playRate' = PlayRateArg
    /\ Advance("play")
    /\ UNCHANGED <<file, bound, audio_files, y, sr, printed, zoomed,
                   changing_pitch, shiftRate, song, call, ret>>

\* lines 51-54: song = AudioSegment.from_mp3(Path).  pydub decodes through
\* its own backend, at the native rate; that backend may fail on a file
\* librosa could read.
FromMp3 ==
    /\ pc = "from_mp3"
    /\ \E decoded \in BOOLEAN :
         IF decoded
         THEN /\ song' = [samples |-> file.pcm, rate |-> file.rate]
              /\ bound' = bound \cup {"song"}
              /\ Advance("from_mp3")
         ELSE /\ Raise("from_mp3", "CouldntDecodeError")
              /\ UNCHANGED <<song, bound>>
    /\ UNCHANGED <<file, audio_files, y, sr, printed, zoomed, changing_pitch,
                   shiftRate, playRate, call, ret>>

Next ==
    \/ GlobFiles
    \/ AudioWidget
    \/ Load
    \/ PrintInfo
    \/ PlotRaw
    \/ PlotZoom
    \/ Shift
    \/ Play
    \/ FromMp3

Spec == Init /\ [][Next]_vars

\* ------------------------------------- the operations as pure functions

LoadCalls ==
    {[op |-> "load", file |-> f, samples |-> <<>>, rate |-> t,
      i |-> 0, j |-> 0, steps |-> 0] : f \in Files, t \in TargetRates}
SliceCalls ==
    {[op |-> "slice", file |-> NoCall.file, samples |-> s, rate |-> TargetRate,
      i |-> i, j |-> j, steps |-> 0] : s \in Arrays, i \in Indices, j \in Indices}
ShiftCalls ==
    {[op |-> "shift", file |-> NoCall.file, samples |-> s, rate |-> t,
      i |-> 0, j |-> 0, steps |-> n] :
        s \in Arrays, t \in TargetRates, n \in StepValues}

InitOps ==
    /\ pc = "ops"
    /\ file = NoCall.file
    /\ bound = {}
    /\ audio_files = <<>>
    /\ y = <<>>
    /\ sr = 0
    /\ printed = <<>>
    /\ zoomed = <<>>
    /\ changing_pitch = <<>>
    /\ shiftRate = 0
    /\ playRate = 0
    /\ song = NoSong
    /\ error = "none"
    /\ failedAt = "none"
    /\ call \in LoadCalls \cup SliceCalls \cup ShiftCalls
    /\ ret = NoRet

\* librosa.load(call.file, sr = call.rate)
ApplyLoad ==
    /\ call.op = "load"
    /\ ret = NoRet
    /\ ret' \in LibrosaLoad(call.file, call.rate)
    /\ UNCHANGED <<scriptVars, call>>

\* call.samples[call.i : call.j]; the rate bound beside the array stays.
ApplySlice ==
    /\ call.op = "slice"
    /\ ret = NoRet
    /\ ret' = Ok(NumpySlice(call.samples, call.i, call.j), call.rate)
    /\ UNCHANGED <<scriptVars, call>>

\* librosa.effects.pitch_shift(call.samples, sr=call.rate, n_steps=call.steps)
ApplyShift ==
    /\ call.op = "shift"
    /\ ret = NoRet
    /\ ret' \in PitchShift(call.samples, call.rate, call.steps)
    /\ UNCHANGED <<scriptVars, call>>

NextOps ==
    \/ ApplyLoad
    \/ ApplySlice
    \/ ApplyShift

OpsSpec == InitOps /\ [][NextOps]_vars

\* ------------------------------------------------------------- properties

Applied == ret # NoRet
Max(a, b) == IF a > b THEN a ELSE b
Min(a, b) == IF a < b THEN a ELSE b

\* C1: load of an audio file returns a buffer whose sample rate is the
\* requested target rate, whatever the native rate of the file is.
C1_LoadReturnsTargetRate ==
    (call.op = "load" /\ Applied /\ call.file.kind = "audio")
        => (ret.ok /\ ret.rate = call.rate)

C1_Witness ==
    /\ call.op = "load"
    /\ ret.ok
    /\ call.file.rate # call.rate
    /\ Len(ret.samples) > 0

OutOfRange ==
    \/ call.i > call.j
    \/ call.i < 0
    \/ call.j > Len(call.samples)

\* C2 as stated: slicing with i > j, i < 0 or j > len fails with RangeError
\* and returns no buffer.
C2_Original ==
    (call.op = "slice" /\ Applied /\ OutOfRange)
        => (~ret.ok /\ ret.error = "RangeError")

\* C2 as amended: slicing with i > j, i < 0 or j > len never fails.  A
\* negative index counts from the end of the buffer (not below 0), an end
\* index beyond the length is shortened to the length, and a window whose
\* start is not before its end is empty.
C2_SliceClampsNeverFails ==
    (call.op = "slice" /\ Applied /\ OutOfRange) =>
        LET n == Len(call.samples)
            a == IF call.i < 0 THEN Max(call.i + n, 0) ELSE call.i
            b == Min(IF call.j < 0 THEN Max(call.j + n, 0) ELSE call.j, n)
        IN  /\ ret.ok
            /\ Len(ret.samples) = Max(b - a, 0)
            /\ \A k \in 1..Len(ret.samples) : ret.samples[k] = call.samples[a + k]

C2_Witness ==
    /\ call.op = "slice"
    /\ Applied
    /\ call.i = 0
    /\ call.j > Len(call.samples)
    /\ Len(call.samples) > 0
    /\ ret.ok
    /\ ret.samples = call.samples

\* C3: with 0 <= i <= j <= len, slicing returns exactly j - i samples, equal
\* one by one to samples i .. j-1 of the buffer, at the same sample rate.
C3_SliceContents ==
    (/\ call.op = "slice"
     /\ Applied
     /\ 0 <= call.i
     /\ call.i <= call.j
     /\ call.j <= Len(call.samples))
        => /\ ret.ok
           /\ Len(ret.samples) = call.j - call.i
           /\ \A k \in 1..(call.j - call.i) :
                ret.samples[k] = call.samples[call.i + k]
           /\ ret.rate = call.rate

C3_Witness ==
    /\ call.op = "slice"
    /\ Applied
    /\ 0 < call.i
    /\ call.i < call.j
    /\ call.j < Len(call.samples)
    /\ Len(ret.samples) = call.j - call.i

C6_Original ==
    (file.kind = "missing" /\ pc = "failed")
        => (failedAt = "load" /\ error = "FileNotFoundError")

\* C6 as amended: when no file exists at the path, the run fails before load
\* is called: glob returns an empty list, audio_files[0] raises IndexError,
\* and no buffer is bound.
C6_MissingFileFailsAtIndex ==
    file.kind = "missing"
        => /\ pc \in {"glob", "audio", "failed"}
           /\ pc = "failed" => (failedAt = "audio" /\ error = "IndexError")
           /\ "y" \notin bound

C6_Witness ==
    /\ file.kind = "missing"
    /\ pc = "failed"
    /\ failedAt = "audio"

\* C7: once y and sr are bound by load, no later statement (print, plot,
\* zoomed slice, pitch shift, playback, second load) changes them.
C7_LoadedBufferUnchanged ==
    [][("y" \in bound) => (y' = y /\ sr' = sr)]_vars

C7_Witness ==
    /\ pc = "done"
    /\ "y" \in bound
    /\ changing_pitch # y
    /\ zoomed # y

\* C8: slicing a buffer from 0 to its length returns the same samples in the
\* same order at the same sample rate, also for an empty buffer.
C8_FullSliceIsIdentity ==
    (/\ call.op = "slice"
     /\ Applied
     /\ call.i = 0
     /\ call.j = Len(call.samples))
        => /\ ret.ok
           /\ ret.samples = call.samples
           /\ ret.rate = call.rate

C8_Witness ==
    /\ call.op = "slice"
    /\ Applied
    /\ call.i = 0
    /\ call.j = Len(call.samples)
    /\ Len(call.samples) >= 2
    /\ ret.samples = call.samples

\* C9: the statements run in their fixed order; a statement that raises ends
\* the run there: the error is recorded at that statement, nothing runs
\* after it, it is not run again, and it binds no result.
C9_FailFast ==
    [][/\ pc \notin {"failed", "done"}
       /\ pc' = NextStep(pc) \/ pc' = "failed"
       /\ (error' # "none") <=> (pc' = "failed")
       /\ pc' = "failed" =>
            /\ failedAt' = pc
            /\ UNCHANGED <<bound, audio_files, y, sr, printed, zoomed,
                           changing_pitch, playRate, song>>]_vars

C9_Witness ==
    /\ pc = "failed"
    /\ failedAt = "shift"
    /\ "changing_pitch" \notin bound
    /\ song = NoSong

\* C10: the rate passed to pitch_shift and the rate used to play the shifted
\* audio are both the rate load returned, which is the rate requested.
C10_RatesAgree ==
    /\ ("sr" \in bound) => sr = TargetRate
    /\ (pc \in {"play", "from_mp3", "done"} \/ failedAt \in {"shift", "from_mp3"})
          => (shiftRate = sr /\ shiftRate = TargetRate)
    /\ (pc \in {"from_mp3", "done"} \/ failedAt = "from_mp3")
          => (playRate = sr /\ playRate = TargetRate)

C10_Witness ==
    /\ pc = "done"
    /\ file.rate # TargetRate
    /\ shiftRate = TargetRate
    /\ playRate = TargetRate

====
